---- MODULE Spec2Model ----
(***************************************************************************)
(* Model of generate_workflow_diagram.py: the FIDO2 workflow diagram       *)
(* renderer (create_fido2_workflow_diagram), its font set-up               *)
(* (setup_chinese_font), save_diagram and the entry routine main().        *)
(*                                                                         *)
(* Conventions.                                                            *)
(*  - Coordinates are in hundredths of a data unit (14 is 1400, 0.7 is     *)
(*    70, 0.25 is 25), so every coordinate the source writes is an exact   *)
(*    integer.  Binary floating-point rounding of the source's decimal     *)
(*    literals is not modelled.                                            *)
(*  - A text is the sequence of its Unicode code points, so that prefixes  *)
(*    and equality of texts are decided on the characters themselves.      *)
(*  - A figure is the record of what was drawn on its axes, in call order. *)
(***************************************************************************)
EXTENDS Integers, Sequences, FiniteSets, TLC

(***************************************************************************)
(* Localization data (lines 94-138) and the conditional labels.            *)
(***************************************************************************)
\* title, line 96 (Chinese text, as code points)
TitleZh ==
  <<70, 73, 68, 79, 50, 32, 35774, 22791, 24037, 20316, 27969, 31243, 65288, 49, 56, 27493, 35814,
  32454, 29256, 65289>>
\* steps, lines 97-116: the Chinese step table, one code-point sequence per entry
StepsZh ==
  <<
  \* [1] line 98
  <<49, 46, 32, 35774, 22791, 21021, 22987, 21270, 65292, 21019, 24314, 67, 65, 30340, 20844,
  38053, 12289, 31169, 38053, 21644, 35777, 20070>>,
  \* [2] line 99
  <<50, 46, 32, 21019, 24314, 29983, 25104, 20973, 25454, 30340, 20844, 38053, 12289, 31169,
  38053, 21644, 22522, 20110, 67, 65, 35777, 20070, 30340, 20973, 25454, 35777, 20070>>,
  \* [3] line 100
  <<51, 46, 32, 21019, 24314, 80, 73, 78, 36890, 20449, 30340, 20844, 38053, 31169, 38053>>,
  \* [4] line 101
  <<52, 46, 32, 23458, 25143, 31471, 35831, 27714, 77, 97, 107, 101, 67, 114, 101, 100, 101, 110,
  116, 105, 97, 108>>,
  \* [5] line 102
  <<53, 46, 32, 35774, 22791, 26816, 27979, 26159, 21542, 25903, 25345, 80, 73, 78, 65292, 33509,
  26159, 21017, 26816, 27979, 26159, 21542, 24050, 32463, 35774, 32622, 80, 73, 78>>,
  \* [6] line 103
  <<54, 46, 32, 33509, 26410, 35774, 32622, 80, 73, 78, 65292, 21017, 36820, 22238, 38169, 35823,
  30721, 65292, 21578, 35785, 99, 108, 105, 101, 110, 116, 38656, 35201, 35774, 32622, 80, 73,
  78>>,
  \* [7] line 104
  <<55, 46, 32, 23458, 25143, 31471, 21457, 36865, 103, 101, 116, 75, 101, 121, 65, 103, 114, 101,
  101, 109, 101, 110, 116, 33719, 21462, 23494, 38053, 20132, 25442, 20449, 24687, 65292, 35745,
  31639, 20849, 20139, 23494, 38053>>,
  \* [8] line 105
  <<56, 46, 32, 23458, 25143, 31471, 20351, 29992, 20849, 20139, 23494, 38053, 23545, 29992,
  25143, 36755, 20837, 23494, 30721, 36827, 34892, 21152, 23494, 65292, 23558, 21152, 23494,
  21518, 30340, 23494, 30721, 21644, 33258, 24049, 30340, 20844, 38053, 20449, 24687, 19968,
  24182, 21457, 36865, 32473, 35774, 22791>>,
  \* [9] line 106
  <<57, 46, 32, 35774, 22791, 25910, 21040, 115, 101, 116, 80, 73, 78, 35831, 27714, 21518, 65292,
  20351, 29992, 23458, 25143, 31471, 21457, 36865, 36807, 26469, 30340, 20844, 38053, 20449,
  24687, 29983, 25104, 20849, 20139, 23494, 38053, 65292, 20351, 29992, 20849, 20139, 23494,
  38053, 23545, 21152, 23494, 36807, 30340, 80, 73, 78, 30721, 36827, 34892, 35299, 23494, 65292,
  28982, 21518, 35760, 24405, 80, 73, 78, 30721, 30340, 104, 97, 115, 104, 20540>>,
  \* [10] line 107
  <<49, 48, 46, 32, 23458, 25143, 31471, 21457, 36865, 103, 101, 116, 80, 73, 78, 84, 111, 107,
  101, 110, 35831, 27714, 65292, 35774, 22791, 20351, 29992, 20849, 20139, 23494, 38053, 23545,
  21457, 36865, 36807, 26469, 30340, 21152, 23494, 36807, 30340, 112, 105, 110, 72, 97, 115, 104,
  36827, 34892, 35299, 23494, 65292, 24182, 19982, 26412, 22320, 35760, 24405, 30340, 112, 105,
  110, 72, 97, 115, 104, 36827, 34892, 23545, 27604, 39564, 35777, 65292, 33509, 21305, 37197,
  21017, 36820, 22238, 20351, 29992, 20849, 20139, 23494, 38053, 21152, 23494, 36807, 30340, 112,
  105, 110, 84, 111, 107, 101, 110>>,
  \* [11] line 108
  <<49, 49, 46, 32, 36825, 26102, 35774, 22791, 24050, 32463, 23436, 25104, 20102, 80, 73, 78,
  30721, 30340, 35774, 32622, 21644, 112, 105, 110, 84, 111, 107, 101, 110, 30340, 33719, 21462,
  65292, 33509, 35774, 22791, 19981, 25903, 25345, 80, 73, 78, 65292, 21017, 27809, 26377, 54,
  126, 49, 48, 30340, 27493, 39588>>,
  \* [12] line 109
  <<49, 50, 46, 32, 32487, 32493, 25509, 30528, 27493, 39588, 53, 65292, 33509, 35774, 22791,
  25903, 25345, 80, 73, 78, 24182, 19988, 80, 73, 78, 24050, 32463, 35774, 32622, 65292, 21017,
  26681, 25454, 23458, 25143, 31471, 30340, 35831, 27714, 23545, 112, 105, 110, 84, 111, 107, 101,
  110, 36827, 34892, 26657, 39564, 65292, 22914, 26524, 112, 105, 110, 84, 111, 107, 101, 110,
  26657, 39564, 22833, 36133, 65292, 21017, 36820, 22238, 80, 73, 78, 30721, 38169, 35823, 20449,
  24687>>,
  \* [13] line 110
  <<49, 51, 46, 32, 35774, 22791, 19981, 25903, 25345, 80, 73, 78, 65292, 25110, 32773, 112, 105,
  110, 84, 111, 107, 101, 110, 26657, 39564, 25104, 21151, 21518, 65292, 35774, 22791, 24320,
  22987, 21019, 24314, 20973, 35777, 65292, 21019, 24314, 20973, 35777, 21069, 35774, 22791,
  20250, 36890, 36807, 19968, 23450, 30340, 26041, 24335, 24377, 20986, 35748, 35777, 85, 73,
  65292, 35753, 29992, 25143, 20915, 23450, 26159, 21542, 20801, 35768, 21019, 24314, 20973,
  35777>>,
  \* [14] line 111
  <<49, 52, 46, 32, 29992, 25143, 20801, 35768, 21518, 65292, 35774, 22791, 24320, 22987, 21019,
  24314, 20973, 35777, 20449, 24687, 24182, 23558, 20973, 35777, 20449, 24687, 21457, 36865,
  32473, 23458, 25143, 31471, 65292, 28982, 21518, 26412, 22320, 23384, 20648, 19968, 20221,
  12290, 20973, 25454, 20449, 24687, 21253, 21547, 35777, 20070, 12289, 20844, 38053, 21644,
  38543, 26426, 29983, 25104, 30340, 20973, 25454, 73, 68>>,
  \* [15] line 112
  <<49, 53, 46, 32, 23458, 25143, 31471, 35831, 27714, 71, 101, 116, 65, 115, 115, 101, 114, 116,
  105, 111, 110, 35748, 35777, 65292, 35774, 22791, 26681, 25454, 23458, 25143, 31471, 20256,
  36882, 36807, 26469, 30340, 20973, 25454, 73, 68, 26597, 25214, 26412, 22320, 26159, 21542,
  23384, 22312, 23545, 24212, 30340, 20973, 25454, 20449, 24687>>,
  \* [16] line 113
  <<49, 54, 46, 32, 33509, 19981, 23384, 22312, 65292, 21017, 36820, 22238, 20973, 25454, 19981,
  23384, 22312, 30340, 38169, 35823, 20449, 24687>>,
  \* [17] line 114
  <<49, 55, 46, 32, 33509, 23384, 22312, 65292, 21017, 23545, 116, 111, 107, 101, 110, 12289, 114,
  112, 31561, 20449, 24687, 36827, 34892, 31616, 21333, 26657, 39564, 65292, 28982, 21518, 23558,
  23458, 25143, 31471, 20256, 36882, 36807, 26469, 30340, 99, 108, 105, 101, 110, 116, 68, 97,
  116, 97, 72, 97, 115, 104, 12289, 114, 112, 20449, 24687, 21644, 26412, 22320, 23384, 20648,
  30340, 20973, 25454, 30456, 20851, 20449, 24687, 19968, 24182, 21457, 36865, 32473, 23458,
  25143, 31471, 65292, 24182, 23545, 36825, 20123, 25968, 25454, 36827, 34892, 31614, 21517>>,
  \* [18] line 115
  <<49, 56, 46, 32, 23458, 25143, 31471, 25910, 21040, 35774, 22791, 21457, 36865, 30340, 65, 115,
  115, 101, 114, 116, 105, 111, 110, 25968, 25454, 65292, 20351, 29992, 35774, 22791, 30340,
  20844, 38053, 36827, 34892, 26657, 39564, 65292, 28982, 21518, 23545, 21457, 36865, 36807,
  26469, 30340, 20973, 35777, 20449, 24687, 36827, 34892, 23545, 27604, 35748, 35777>>
  >>
\* title, line 118: "FIDO2 Device Workflow (18-Step Detailed Version)"
TitleEn ==
  <<70, 73, 68, 79, 50, 32, 68, 101, 118, 105, 99, 101, 32, 87, 111, 114, 107, 102, 108, 111, 119,
  32, 40, 49, 56, 45, 83, 116, 101, 112, 32, 68, 101, 116, 97, 105, 108, 101, 100, 32, 86, 101,
  114, 115, 105, 111, 110, 41>>
\* steps, lines 119-138: the English step table, one code-point sequence per entry
StepsEn ==
  <<
  \* [1] line 120: 1. Device initialization, create CA public key, private key, and certi...
  <<49, 46, 32, 68, 101, 118, 105, 99, 101, 32, 105, 110, 105, 116, 105, 97, 108, 105, 122, 97,
  116, 105, 111, 110, 44, 32, 99, 114, 101, 97, 116, 101, 32, 67, 65, 32, 112, 117, 98, 108, 105,
  99, 32, 107, 101, 121, 44, 32, 112, 114, 105, 118, 97, 116, 101, 32, 107, 101, 121, 44, 32, 97,
  110, 100, 32, 99, 101, 114, 116, 105, 102, 105, 99, 97, 116, 101>>,
  \* [2] line 121: 2. Create credential public key, private key and credential certificat...
  <<50, 46, 32, 67, 114, 101, 97, 116, 101, 32, 99, 114, 101, 100, 101, 110, 116, 105, 97, 108,
  32, 112, 117, 98, 108, 105, 99, 32, 107, 101, 121, 44, 32, 112, 114, 105, 118, 97, 116, 101, 32,
  107, 101, 121, 32, 97, 110, 100, 32, 99, 114, 101, 100, 101, 110, 116, 105, 97, 108, 32, 99,
  101, 114, 116, 105, 102, 105, 99, 97, 116, 101, 32, 98, 97, 115, 101, 100, 32, 111, 110, 32, 67,
  65, 32, 99, 101, 114, 116, 105, 102, 105, 99, 97, 116, 101>>,
  \* [3] line 122: 3. Create PIN communication public/private key pair
  <<51, 46, 32, 67, 114, 101, 97, 116, 101, 32, 80, 73, 78, 32, 99, 111, 109, 109, 117, 110, 105,
  99, 97, 116, 105, 111, 110, 32, 112, 117, 98, 108, 105, 99, 47, 112, 114, 105, 118, 97, 116,
  101, 32, 107, 101, 121, 32, 112, 97, 105, 114>>,
  \* [4] line 123: 4. Client requests MakeCredential
  <<52, 46, 32, 67, 108, 105, 101, 110, 116, 32, 114, 101, 113, 117, 101, 115, 116, 115, 32, 77,
  97, 107, 101, 67, 114, 101, 100, 101, 110, 116, 105, 97, 108>>,
  \* [5] line 124: 5. Device checks if PIN is supported, if yes then checks if PIN is alr...
  <<53, 46, 32, 68, 101, 118, 105, 99, 101, 32, 99, 104, 101, 99, 107, 115, 32, 105, 102, 32, 80,
  73, 78, 32, 105, 115, 32, 115, 117, 112, 112, 111, 114, 116, 101, 100, 44, 32, 105, 102, 32,
  121, 101, 115, 32, 116, 104, 101, 110, 32, 99, 104, 101, 99, 107, 115, 32, 105, 102, 32, 80, 73,
  78, 32, 105, 115, 32, 97, 108, 114, 101, 97, 100, 121, 32, 115, 101, 116>>,
  \* [6] line 125: 6. If PIN is not set, return error code, telling client PIN setup is r...
  <<54, 46, 32, 73, 102, 32, 80, 73, 78, 32, 105, 115, 32, 110, 111, 116, 32, 115, 101, 116, 44,
  32, 114, 101, 116, 117, 114, 110, 32, 101, 114, 114, 111, 114, 32, 99, 111, 100, 101, 44, 32,
  116, 101, 108, 108, 105, 110, 103, 32, 99, 108, 105, 101, 110, 116, 32, 80, 73, 78, 32, 115,
  101, 116, 117, 112, 32, 105, 115, 32, 114, 101, 113, 117, 105, 114, 101, 100>>,
  \* [7] line 126: 7. Client sends getKeyAgreement to get key exchange information, calcu...
  <<55, 46, 32, 67, 108, 105, 101, 110, 116, 32, 115, 101, 110, 100, 115, 32, 103, 101, 116, 75,
  101, 121, 65, 103, 114, 101, 101, 109, 101, 110, 116, 32, 116, 111, 32, 103, 101, 116, 32, 107,
  101, 121, 32, 101, 120, 99, 104, 97, 110, 103, 101, 32, 105, 110, 102, 111, 114, 109, 97, 116,
  105, 111, 110, 44, 32, 99, 97, 108, 99, 117, 108, 97, 116, 101, 32, 115, 104, 97, 114, 101, 100,
  32, 107, 101, 121>>,
  \* [8] line 127: 8. Client encrypts user input password with shared key, sends encrypte...
  <<56, 46, 32, 67, 108, 105, 101, 110, 116, 32, 101, 110, 99, 114, 121, 112, 116, 115, 32, 117,
  115, 101, 114, 32, 105, 110, 112, 117, 116, 32, 112, 97, 115, 115, 119, 111, 114, 100, 32, 119,
  105, 116, 104, 32, 115, 104, 97, 114, 101, 100, 32, 107, 101, 121, 44, 32, 115, 101, 110, 100,
  115, 32, 101, 110, 99, 114, 121, 112, 116, 101, 100, 32, 112, 97, 115, 115, 119, 111, 114, 100,
  32, 97, 110, 100, 32, 112, 117, 98, 108, 105, 99, 32, 107, 101, 121, 32, 105, 110, 102, 111, 32,
  116, 111, 32, 100, 101, 118, 105, 99, 101>>,
  \* [9] line 128: 9. Device receives setPIN request, uses client's public key to generat...
  <<57, 46, 32, 68, 101, 118, 105, 99, 101, 32, 114, 101, 99, 101, 105, 118, 101, 115, 32, 115,
  101, 116, 80, 73, 78, 32, 114, 101, 113, 117, 101, 115, 116, 44, 32, 117, 115, 101, 115, 32, 99,
  108, 105, 101, 110, 116, 39, 115, 32, 112, 117, 98, 108, 105, 99, 32, 107, 101, 121, 32, 116,
  111, 32, 103, 101, 110, 101, 114, 97, 116, 101, 32, 115, 104, 97, 114, 101, 100, 32, 107, 101,
  121, 44, 32, 100, 101, 99, 114, 121, 112, 116, 115, 32, 101, 110, 99, 114, 121, 112, 116, 101,
  100, 32, 80, 73, 78, 32, 119, 105, 116, 104, 32, 115, 104, 97, 114, 101, 100, 32, 107, 101, 121,
  44, 32, 116, 104, 101, 110, 32, 114, 101, 99, 111, 114, 100, 115, 32, 80, 73, 78, 32, 104, 97,
  115, 104, 32, 118, 97, 108, 117, 101>>,
  \* [10] line 129: 10. Client sends getPINToken request, device decrypts encrypted pinHas...
  <<49, 48, 46, 32, 67, 108, 105, 101, 110, 116, 32, 115, 101, 110, 100, 115, 32, 103, 101, 116,
  80, 73, 78, 84, 111, 107, 101, 110, 32, 114, 101, 113, 117, 101, 115, 116, 44, 32, 100, 101,
  118, 105, 99, 101, 32, 100, 101, 99, 114, 121, 112, 116, 115, 32, 101, 110, 99, 114, 121, 112,
  116, 101, 100, 32, 112, 105, 110, 72, 97, 115, 104, 32, 119, 105, 116, 104, 32, 115, 104, 97,
  114, 101, 100, 32, 107, 101, 121, 44, 32, 99, 111, 109, 112, 97, 114, 101, 115, 32, 119, 105,
  116, 104, 32, 108, 111, 99, 97, 108, 108, 121, 32, 115, 116, 111, 114, 101, 100, 32, 112, 105,
  110, 72, 97, 115, 104, 44, 32, 105, 102, 32, 109, 97, 116, 99, 104, 32, 114, 101, 116, 117, 114,
  110, 115, 32, 115, 104, 97, 114, 101, 100, 32, 107, 101, 121, 32, 101, 110, 99, 114, 121, 112,
  116, 101, 100, 32, 112, 105, 110, 84, 111, 107, 101, 110>>,
  \* [11] line 130: 11. Device has completed PIN setup and pinToken acquisition, if device...
  <<49, 49, 46, 32, 68, 101, 118, 105, 99, 101, 32, 104, 97, 115, 32, 99, 111, 109, 112, 108, 101,
  116, 101, 100, 32, 80, 73, 78, 32, 115, 101, 116, 117, 112, 32, 97, 110, 100, 32, 112, 105, 110,
  84, 111, 107, 101, 110, 32, 97, 99, 113, 117, 105, 115, 105, 116, 105, 111, 110, 44, 32, 105,
  102, 32, 100, 101, 118, 105, 99, 101, 32, 100, 111, 101, 115, 110, 39, 116, 32, 115, 117, 112,
  112, 111, 114, 116, 32, 80, 73, 78, 44, 32, 115, 116, 101, 112, 115, 32, 54, 45, 49, 48, 32, 97,
  114, 101, 32, 115, 107, 105, 112, 112, 101, 100>>,
  \* [12] line 131: 12. Continue from step 5, if device supports PIN and PIN is set, valid...
  <<49, 50, 46, 32, 67, 111, 110, 116, 105, 110, 117, 101, 32, 102, 114, 111, 109, 32, 115, 116,
  101, 112, 32, 53, 44, 32, 105, 102, 32, 100, 101, 118, 105, 99, 101, 32, 115, 117, 112, 112,
  111, 114, 116, 115, 32, 80, 73, 78, 32, 97, 110, 100, 32, 80, 73, 78, 32, 105, 115, 32, 115,
  101, 116, 44, 32, 118, 97, 108, 105, 100, 97, 116, 101, 32, 112, 105, 110, 84, 111, 107, 101,
  110, 32, 112, 101, 114, 32, 99, 108, 105, 101, 110, 116, 32, 114, 101, 113, 117, 101, 115, 116,
  44, 32, 105, 102, 32, 118, 97, 108, 105, 100, 97, 116, 105, 111, 110, 32, 102, 97, 105, 108,
  115, 32, 114, 101, 116, 117, 114, 110, 32, 80, 73, 78, 32, 101, 114, 114, 111, 114>>,
  \* [13] line 132: 13. Device doesn't support PIN, or pinToken validation succeeds, devic...
  <<49, 51, 46, 32, 68, 101, 118, 105, 99, 101, 32, 100, 111, 101, 115, 110, 39, 116, 32, 115,
  117, 112, 112, 111, 114, 116, 32, 80, 73, 78, 44, 32, 111, 114, 32, 112, 105, 110, 84, 111, 107,
  101, 110, 32, 118, 97, 108, 105, 100, 97, 116, 105, 111, 110, 32, 115, 117, 99, 99, 101, 101,
  100, 115, 44, 32, 100, 101, 118, 105, 99, 101, 32, 115, 116, 97, 114, 116, 115, 32, 99, 114,
  101, 97, 116, 105, 110, 103, 32, 99, 114, 101, 100, 101, 110, 116, 105, 97, 108, 44, 32, 98,
  101, 102, 111, 114, 101, 32, 99, 114, 101, 97, 116, 105, 110, 103, 32, 99, 114, 101, 100, 101,
  110, 116, 105, 97, 108, 32, 100, 101, 118, 105, 99, 101, 32, 115, 104, 111, 119, 115, 32, 97,
  117, 116, 104, 101, 110, 116, 105, 99, 97, 116, 105, 111, 110, 32, 85, 73, 32, 102, 111, 114,
  32, 117, 115, 101, 114, 32, 99, 111, 110, 115, 101, 110, 116>>,
  \* [14] line 133: 14. After user allows, device creates credential info and sends to cli...
  <<49, 52, 46, 32, 65, 102, 116, 101, 114, 32, 117, 115, 101, 114, 32, 97, 108, 108, 111, 119,
  115, 44, 32, 100, 101, 118, 105, 99, 101, 32, 99, 114, 101, 97, 116, 101, 115, 32, 99, 114, 101,
  100, 101, 110, 116, 105, 97, 108, 32, 105, 110, 102, 111, 32, 97, 110, 100, 32, 115, 101, 110,
  100, 115, 32, 116, 111, 32, 99, 108, 105, 101, 110, 116, 44, 32, 116, 104, 101, 110, 32, 115,
  116, 111, 114, 101, 115, 32, 108, 111, 99, 97, 108, 108, 121, 46, 32, 67, 114, 101, 100, 101,
  110, 116, 105, 97, 108, 32, 105, 110, 102, 111, 32, 105, 110, 99, 108, 117, 100, 101, 115, 32,
  99, 101, 114, 116, 105, 102, 105, 99, 97, 116, 101, 44, 32, 112, 117, 98, 108, 105, 99, 32, 107,
  101, 121, 44, 32, 97, 110, 100, 32, 114, 97, 110, 100, 111, 109, 108, 121, 32, 103, 101, 110,
  101, 114, 97, 116, 101, 100, 32, 99, 114, 101, 100, 101, 110, 116, 105, 97, 108, 32, 73, 68>>,
  \* [15] line 134: 15. Client requests GetAssertion authentication, device looks up crede...
  <<49, 53, 46, 32, 67, 108, 105, 101, 110, 116, 32, 114, 101, 113, 117, 101, 115, 116, 115, 32,
  71, 101, 116, 65, 115, 115, 101, 114, 116, 105, 111, 110, 32, 97, 117, 116, 104, 101, 110, 116,
  105, 99, 97, 116, 105, 111, 110, 44, 32, 100, 101, 118, 105, 99, 101, 32, 108, 111, 111, 107,
  115, 32, 117, 112, 32, 99, 114, 101, 100, 101, 110, 116, 105, 97, 108, 32, 105, 110, 102, 111,
  32, 98, 121, 32, 99, 114, 101, 100, 101, 110, 116, 105, 97, 108, 32, 73, 68, 32, 112, 97, 115,
  115, 101, 100, 32, 102, 114, 111, 109, 32, 99, 108, 105, 101, 110, 116>>,
  \* [16] line 135: 16. If not found, return credential not found error
  <<49, 54, 46, 32, 73, 102, 32, 110, 111, 116, 32, 102, 111, 117, 110, 100, 44, 32, 114, 101,
  116, 117, 114, 110, 32, 99, 114, 101, 100, 101, 110, 116, 105, 97, 108, 32, 110, 111, 116, 32,
  102, 111, 117, 110, 100, 32, 101, 114, 114, 111, 114>>,
  \* [17] line 136: 17. If found, validate token, rp info, then send clientDataHash, rp in...
  <<49, 55, 46, 32, 73, 102, 32, 102, 111, 117, 110, 100, 44, 32, 118, 97, 108, 105, 100, 97, 116,
  101, 32, 116, 111, 107, 101, 110, 44, 32, 114, 112, 32, 105, 110, 102, 111, 44, 32, 116, 104,
  101, 110, 32, 115, 101, 110, 100, 32, 99, 108, 105, 101, 110, 116, 68, 97, 116, 97, 72, 97, 115,
  104, 44, 32, 114, 112, 32, 105, 110, 102, 111, 32, 102, 114, 111, 109, 32, 99, 108, 105, 101,
  110, 116, 32, 97, 110, 100, 32, 108, 111, 99, 97, 108, 108, 121, 32, 115, 116, 111, 114, 101,
  100, 32, 99, 114, 101, 100, 101, 110, 116, 105, 97, 108, 32, 105, 110, 102, 111, 32, 116, 111,
  32, 99, 108, 105, 101, 110, 116, 44, 32, 97, 110, 100, 32, 115, 105, 103, 110, 32, 116, 104,
  105, 115, 32, 100, 97, 116, 97>>,
  \* [18] line 137: 18. Client receives Assertion data from device, verifies with device's...
  <<49, 56, 46, 32, 67, 108, 105, 101, 110, 116, 32, 114, 101, 99, 101, 105, 118, 101, 115, 32,
  65, 115, 115, 101, 114, 116, 105, 111, 110, 32, 100, 97, 116, 97, 32, 102, 114, 111, 109, 32,
  100, 101, 118, 105, 99, 101, 44, 32, 118, 101, 114, 105, 102, 105, 101, 115, 32, 119, 105, 116,
  104, 32, 100, 101, 118, 105, 99, 101, 39, 115, 32, 112, 117, 98, 108, 105, 99, 32, 107, 101,
  121, 44, 32, 116, 104, 101, 110, 32, 99, 111, 109, 112, 97, 114, 101, 115, 32, 114, 101, 99,
  101, 105, 118, 101, 100, 32, 99, 114, 101, 100, 101, 110, 116, 105, 97, 108, 32, 105, 110, 102,
  111, 32, 102, 111, 114, 32, 97, 117, 116, 104, 101, 110, 116, 105, 99, 97, 116, 105, 111, 110>>
  >>
\* line 148: "Phase 1: Device Initialization"
Phase1TitleEn ==
  <<80, 104, 97, 115, 101, 32, 49, 58, 32, 68, 101, 118, 105, 99, 101, 32, 73, 110, 105, 116, 105,
  97, 108, 105, 122, 97, 116, 105, 111, 110>>
\* line 148: the Chinese alternative of "Phase 1: Device Initialization"
Phase1TitleZh ==
  <<31532, 19968, 38454, 27573, 65306, 35774, 22791, 21021, 22987, 21270>>
\* line 162: "Phase 2: Credential Registration"
Phase2TitleEn ==
  <<80, 104, 97, 115, 101, 32, 50, 58, 32, 67, 114, 101, 100, 101, 110, 116, 105, 97, 108, 32, 82,
  101, 103, 105, 115, 116, 114, 97, 116, 105, 111, 110>>
\* line 162: the Chinese alternative of "Phase 2: Credential Registration"
Phase2TitleZh ==
  <<31532, 20108, 38454, 27573, 65306, 20973, 25454, 27880, 20876>>
\* line 186: "PIN Support Decision"
PinSupportDecisionEn ==
  <<80, 73, 78, 32, 83, 117, 112, 112, 111, 114, 116, 32, 68, 101, 99, 105, 115, 105, 111, 110>>
\* line 186: the Chinese alternative of "PIN Support Decision"
PinSupportDecisionZh ==
  <<80, 73, 78, 25903, 25345, 20915, 31574>>
\* line 252: "Phase 3: Authentication"
Phase3TitleEn ==
  <<80, 104, 97, 115, 101, 32, 51, 58, 32, 65, 117, 116, 104, 101, 110, 116, 105, 99, 97, 116,
  105, 111, 110>>
\* line 252: the Chinese alternative of "Phase 3: Authentication"
Phase3TitleZh ==
  <<31532, 19977, 38454, 27573, 65306, 36523, 20221, 39564, 35777>>
\* line 267: "Credential Lookup"
CredentialLookupEn ==
  <<67, 114, 101, 100, 101, 110, 116, 105, 97, 108, 32, 76, 111, 111, 107, 117, 112>>
\* line 267: the Chinese alternative of "Credential Lookup"
CredentialLookupZh ==
  <<20973, 25454, 26597, 25214>>
\* line 360: "Initialization"
InitializationEn ==
  <<73, 110, 105, 116, 105, 97, 108, 105, 122, 97, 116, 105, 111, 110>>
\* line 360: the Chinese alternative of "Initialization"
InitializationZh ==
  <<21021, 22987, 21270>>
\* line 361: "Registration"
RegistrationEn ==
  <<82, 101, 103, 105, 115, 116, 114, 97, 116, 105, 111, 110>>
\* line 361: the Chinese alternative of "Registration"
RegistrationZh ==
  <<27880, 20876>>
\* line 362: "PIN Setup"
PinSetupEn ==
  <<80, 73, 78, 32, 83, 101, 116, 117, 112>>
\* line 362: the Chinese alternative of "PIN Setup"
PinSetupZh ==
  <<80, 73, 78, 35774, 32622>>
\* line 363: "Authentication"
AuthenticationEn ==
  <<65, 117, 116, 104, 101, 110, 116, 105, 99, 97, 116, 105, 111, 110>>
\* line 363: the Chinese alternative of "Authentication"
AuthenticationZh ==
  <<35748, 35777>>
\* line 364: "Success"
SuccessEn ==
  <<83, 117, 99, 99, 101, 115, 115>>
\* line 364: the Chinese alternative of "Success"
SuccessZh ==
  <<25104, 21151>>
\* line 365: "Error"
ErrorEn ==
  <<69, 114, 114, 111, 114>>
\* line 365: the Chinese alternative of "Error"
ErrorZh ==
  <<38169, 35823>>

(***************************************************************************)
(* Python list helpers the renderer relies on.                             *)
(***************************************************************************)
Min(a, b) == IF a < b THEN a ELSE b

\* seq[i] with Python's 0-based index
PyIndex(seq, i) == seq[i + 1]

\* seq[a:b] with Python's clamping of the upper bound to len(seq)
PySlice(seq, a, b) == SubSeq(seq, a + 1, Min(b, Len(seq)))

(***************************************************************************)
(* Lines 83-92: the colour table.                                          *)
(***************************************************************************)
colors ==
  [ init         |-> "#E3F2FD",
    registration |-> "#F3E5F5",
    pin_setup    |-> "#FFF3E0",
    auth         |-> "#E8F5E8",
    error        |-> "#FFEBEE",
    success      |-> "#E8F5E8",
    border       |-> "#1976D2" ]

(***************************************************************************)
(* Lines 94-138: text selection.  Only 'zh' selects the Chinese table;     *)
(* every other tag takes the else branch.                                  *)
(***************************************************************************)
title(language) == IF language = "zh" THEN TitleZh ELSE TitleEn

steps(language) == IF language = "zh" THEN StepsZh ELSE StepsEn

\* the conditional expression  <en> if language == 'en' else <zh>
\* used for the phase titles, the decision labels and the legend labels
Localized(language, en, zh) == IF language = "en" THEN en ELSE zh

(***************************************************************************)
(* Layout constants (hundredths of a data unit).                           *)
(***************************************************************************)
y_start == 1400
step_height == 70
BoxWidth == 300
BoxHeight == 50
HalfHeight == 25
BoxPad == 10
XLimit == 1200
YLimit == 1600

y_pin == y_start - 2 * step_height
y_pin_not_set == y_pin - step_height
y_pin_complete == y_pin_not_set - 5 * step_height
y_pin_validation == y_pin_complete - step_height
y_user_auth == y_pin_validation - step_height
y_cred_creation == y_user_auth - step_height
y_auth_start == y_start
y_lookup == y_auth_start - step_height
y_not_found == y_lookup - step_height

\* FancyBboxPatch((x, y-0.25), 3, 0.5, boxstyle="round,pad=0.1", ...) followed
\* by ax.text(tx, y, text, ...): one step box and the text drawn on it
StepBox(x, y, face, tx, text) ==
  [ x |-> x, y |-> y - HalfHeight, w |-> BoxWidth, h |-> BoxHeight, pad |-> BoxPad,
    face |-> face, edge |-> colors.border, tx |-> tx, ty |-> y, text |-> text ]

\* ax.text(x, y, s, ...) that is not the text of a step box
TextAt(x, y, s) == [ x |-> x, y |-> y, s |-> s ]

\* lines 151-159: for i in range(3)
InitBoxes(st) ==
  [ k \in 1..3 |->
      LET i == k - 1
      IN  StepBox(50, y_start - i * step_height, colors.init, 200, PyIndex(st, i)) ]

\* lines 165-182: steps 4 and 5
RegistrationBoxes(st) ==
  << StepBox(450, y_start, colors.registration, 600, PyIndex(st, 3)),
     StepBox(450, y_start - step_height, colors.registration, 600, PyIndex(st, 4)) >>

\* lines 190-197: step 6
PinNotSetBox(st) ==
  << StepBox(150, y_pin_not_set, colors.error, 300, PyIndex(st, 5)) >>

\* variant: the slice stops one entry early
pin_setup_short(st) == PySlice(st, 6, 9)

\* line 200: pin_setup_steps = steps[6:10]
pin_setup_steps(st) == PySlice(st, 6, 10)

\* lines 201-209: for i, step in enumerate(pin_setup_steps)
PinSetupBoxes(st) ==
  LET pss == pin_setup_steps(st)
  IN  [ k \in 1..Len(pss) |->
          LET i == k - 1
          IN  StepBox(750, y_pin_not_set - (i + 1) * step_height, colors.pin_setup, 900, pss[k]) ]

\* lines 212-249: steps 11 to 14
RegistrationTailBoxes(st) ==
  << StepBox(450, y_pin_complete, colors.pin_setup, 600, PyIndex(st, 10)),
     StepBox(450, y_pin_validation, colors.registration, 600, PyIndex(st, 11)),
     StepBox(450, y_user_auth, colors.registration, 600, PyIndex(st, 12)),
     StepBox(450, y_cred_creation, colors.success, 600, PyIndex(st, 13)) >>

\* lines 256-263 and 271-278: steps 15 and 16
AuthBoxes(st) ==
  << StepBox(850, y_auth_start, colors.auth, 1000, PyIndex(st, 14)),
     StepBox(650, y_not_found, colors.error, 800, PyIndex(st, 15)) >>

\* line 281: success_steps = steps[16:18]
success_steps(st) == PySlice(st, 16, 18)

\* lines 282-290: for i, step in enumerate(success_steps)
SuccessBoxes(st) ==
  LET ss == success_steps(st)
  IN  [ k \in 1..Len(ss) |->
          LET i == k - 1
          IN  StepBox(1050, y_not_found - (i + 1) * step_height, colors.success, 1200, ss[k]) ]

\* all step boxes of one render, in the order the code adds them
DrawBoxes(st) ==
  InitBoxes(st) \o RegistrationBoxes(st) \o PinNotSetBox(st) \o PinSetupBoxes(st)
    \o RegistrationTailBoxes(st) \o AuthBoxes(st) \o SuccessBoxes(st)

\* the texts drawn outside step boxes, in call order: title (141), phase 1
\* title (148), phase 2 title (162), PIN decision (186), phase 3 title (252),
\* credential lookup (267)
DrawLabels(language) ==
  << TextAt(600, 1550, title(language)),
     TextAt(200, y_start + 50, Localized(language, Phase1TitleEn, Phase1TitleZh)),
     TextAt(600, y_start + 50, Localized(language, Phase2TitleEn, Phase2TitleZh)),
     TextAt(600, y_pin, Localized(language, PinSupportDecisionEn, PinSupportDecisionZh)),
     TextAt(900, y_start + 50, Localized(language, Phase3TitleEn, Phase3TitleZh)),
     TextAt(1000, y_lookup, Localized(language, CredentialLookupEn, CredentialLookupZh)) >>

(***************************************************************************)
(* Lines 292-356: the arrows, ConnectionPatch(xyA, xyB, "data", "data").   *)
(***************************************************************************)
Arrow(ax, ay, bx, by) == [ ax |-> ax, ay |-> ay, bx |-> bx, by |-> by ]

arrow1 == Arrow(350, y_start - 150, 450, y_start)
arrow2 == Arrow(750, y_cred_creation, 850, y_auth_start)
arrow3 == Arrow(600, y_start - 25, 600, y_start - step_height + 25)
arrow4 == Arrow(600, y_start - 2 * step_height - 25, 600, y_pin + 25)
arrow5 == Arrow(450, y_pin, 300, y_pin_not_set)

\* variant: arrow 6 leaves the right-bottom corner of the step 6 box
arrow6_from_corner == Arrow(450, y_pin_not_set - 25, 750, y_pin_not_set - step_height + 25)

\* lines 319-321
arrow6 == Arrow(300, y_pin_not_set - 25, 750, y_pin_not_set - step_height + 25)
arrow7 == Arrow(900, y_pin_not_set - 5 * step_height + 25, 600, y_pin_complete - 25)
arrow8 == Arrow(600, y_pin_complete - 25, 600, y_pin_validation + 25)
arrow9 == Arrow(600, y_pin_validation - 25, 600, y_user_auth + 25)
arrow10 == Arrow(600, y_user_auth - 25, 600, y_cred_creation + 25)
arrow11 == Arrow(850, y_lookup, 800, y_not_found)
arrow12 == Arrow(800, y_not_found - 25, 1050, y_not_found - step_height + 25)
arrow13 == Arrow(1200, y_not_found - step_height - 25, 1200, y_not_found - 2 * step_height + 25)

DrawArrows ==
  << arrow1, arrow2, arrow3, arrow4, arrow5, arrow6, arrow7, arrow8, arrow9, arrow10,
     arrow11, arrow12, arrow13 >>

(***************************************************************************)
(* Lines 359-367: the legend handles, patches.Patch(color=..., label=...). *)
(***************************************************************************)
LegendEntry(color, label) == [ color |-> color, label |-> label ]

legend_elements(language) ==
  << LegendEntry(colors.init, Localized(language, InitializationEn, InitializationZh)),
     LegendEntry(colors.registration, Localized(language, RegistrationEn, RegistrationZh)),
     LegendEntry(colors.pin_setup, Localized(language, PinSetupEn, PinSetupZh)),
     LegendEntry(colors.auth, Localized(language, AuthenticationEn, AuthenticationZh)),
     LegendEntry(colors.success, Localized(language, SuccessEn, SuccessZh)),
     LegendEntry(colors.error, Localized(language, ErrorEn, ErrorZh)) >>

\* lines 77-81 and 140-370: everything one call draws on its own new axes
DrawDiagram(language) ==
  [ language |-> language,
    xlim     |-> << 0, XLimit >>,
    ylim     |-> << 0, YLimit >>,
    labels   |-> DrawLabels(language),
    boxes    |-> DrawBoxes(steps(language)),
    arrows   |-> DrawArrows,
    legend   |-> legend_elements(language) ]

(***************************************************************************)
(* Lines 18-63: setup_chinese_font.                                        *)
(*                                                                         *)
(* The host is what the font set-up can observe: platform.system(), for    *)
(* each candidate file whether it exists and loads, and for each family    *)
(* name what the lookup in the try body does:                              *)
(*   "error"   the try body raises (findfont or the comparison),           *)
(*   "default" findfont returns the path of the library's fallback font,   *)
(*   "real"    findfont returns the path of a font of that family.         *)
(***************************************************************************)
chinese_fonts ==
  << "SimHei", "Microsoft YaHei", "SimSun", "KaiTi", "FangSong", "Arial Unicode MS" >>

font_paths ==
  << "C:/Windows/Fonts/simhei.ttf", "C:/Windows/Fonts/msyh.ttc", "C:/Windows/Fonts/simsun.ttc",
     "C:/Windows/Fonts/simkai.ttf", "C:/Windows/Fonts/simfang.ttf" >>

\* line 40: os.path.splitext(os.path.basename(font_path))[0] on the five paths
font_stem ==
  << "simhei", "msyh", "simsun", "simkai", "simfang" >>

Systems == { "Windows", "Linux" }
FileAnswers == { "absent", "loaderror", "ok" }
FamilyAnswers == { "error", "default", "real" }

\* line 53: font_path != fm.rcParams['font.sans-serif'] compares the str that
\* findfont returned with a list; in Python a str is never equal to a list
PathDiffersFromList(answer, sansSerifList) == TRUE

WarnNoFont == << "Warning: No Chinese font found, Chinese text may not display correctly" >>

SetupResult(ret, ss, um, out) ==
  [ ret |-> ret, sansSerif |-> ss, unicodeMinus |-> um, out |-> out ]

\* lines 50-63: the loop over the family names, then the warning
RECURSIVE FamilyLoop(_, _, _, _, _)
FamilyLoop(h, j, ss, um, out) ==
  IF j > Len(chinese_fonts)
    THEN SetupResult(FALSE, ss, um, Append(out, WarnNoFont))
    ELSE IF h.families[j] = "error"
      THEN FamilyLoop(h, j + 1, ss, um, out)
      ELSE IF PathDiffersFromList(h.families[j], ss)
        THEN SetupResult(TRUE, << chinese_fonts[j] >> \o ss, FALSE,
                         Append(out, << "Using Chinese font", chinese_fonts[j] >>))
        ELSE FamilyLoop(h, j + 1, ss, um, out)

\* lines 36-47: the loop over the font files (Windows only)
RECURSIVE PathLoop(_, _, _, _, _)
PathLoop(h, i, ss, um, out) ==
  IF i > Len(font_paths)
    THEN FamilyLoop(h, 1, ss, um, out)
    ELSE IF h.files[i] = "absent"
      THEN PathLoop(h, i + 1, ss, um, out)
      ELSE IF h.files[i] = "loaderror"
        THEN PathLoop(h, i + 1, ss, um,
                      Append(out, << "Failed to load font", font_paths[i] >>))
        ELSE SetupResult(TRUE, << font_stem[i] >> \o ss, FALSE,
                         Append(out, << "Using Chinese font", font_stem[i], font_paths[i] >>))

setup_chinese_font(h, ss, um) ==
  IF h.system = "Windows"
    THEN PathLoop(h, 1, ss, um, << >>)
    ELSE FamilyLoop(h, 1, ss, um, << >>)

\* the answers the font set-up does not read are fixed: no file answer on a
\* host that is not Windows, nothing after the first usable font
FileHosts ==
  { f \in [ 1..Len(font_paths) -> FileAnswers ] :
      \A i \in 1..Len(font_paths) : (\E k \in 1..(i - 1) : f[k] = "ok") => f[i] = "absent" }

FamilyHosts ==
  { g \in [ 1..Len(chinese_fonts) -> FamilyAnswers ] :
      \A j \in 1..Len(chinese_fonts) : (\E k \in 1..(j - 1) : g[k] # "error") => g[j] = "error" }

Hosts ==
  { h \in [ system : Systems, files : FileHosts, families : FamilyHosts ] :
      /\ h.system # "Windows" => \A i \in 1..Len(font_paths) : h.files[i] = "absent"
      /\ (\E i \in 1..Len(font_paths) : h.files[i] = "ok")
           => \A j \in 1..Len(chinese_fonts) : h.families[j] = "error" }

\* the library's initial rcParams['font.sans-serif'] and ['axes.unicode_minus']
DefaultSansSerif == << "DejaVu Sans", "sans-serif" >>

(***************************************************************************)
(* State.                                                                  *)
(***************************************************************************)
VARIABLES
  pc,            \* position in main(), or "caller" for direct invocations
  host,          \* the font environment of the host (fixed during a run)
  sansSerif,     \* plt.rcParams['font.sans-serif']
  unicodeMinus,  \* plt.rcParams['axes.unicode_minus']
  figures,       \* pyplot's open figures: figure number -> what was drawn
  fig_en,        \* main's local fig_en (0 while unbound)
  fig_zh,        \* main's local fig_zh (0 while unbound)
  fontFound,     \* what the last setup_chinese_font call returned ("none" before)
  dirs,          \* directories that exist under the working directory
  files,         \* files written: name -> content
  stdout,        \* what has been printed
  events,        \* the operations of main() so far, in order, failed ones included
  calls          \* number of direct invocations made

vars ==
  << pc, host, sansSerif, unicodeMinus, figures, fig_en, fig_zh, fontFound, dirs, files,
     stdout, events, calls >>

\* bound on the number of direct invocations of the renderer
MaxCalls == 2

Languages == { "en", "zh", "fr" }

rc == << sansSerif, unicodeMinus >>

NoFigure == 0

InitCommon ==
  /\ host \in Hosts
  /\ sansSerif = DefaultSansSerif
  /\ unicodeMinus = TRUE
  /\ figures = << >>
  /\ fig_en = NoFigure
  /\ fig_zh = NoFigure
  /\ fontFound = "none"
  /\ dirs \in { {}, { "images" } }
  /\ files = << >>
  /\ stdout = << >>
  /\ events = << >>
  /\ calls = 0

Init ==
  /\ InitCommon
  /\ pc = "makedirs"

InitCalls ==
  /\ InitCommon
  /\ pc = "caller"

(***************************************************************************)
(* Lines 65-370: one call of create_fido2_workflow_diagram(language).      *)
(***************************************************************************)
\* variant: the font set-up runs for every language
NeedsFontAlways(language) == TRUE

\* line 74: if language == 'zh'
NeedsChineseFont(language) == language = "zh"

\* line 78: plt.subplots makes a new figure; pyplot numbers it one above the
\* largest open figure number
NextFigureNumber(figs) ==
  IF DOMAIN figs = {} THEN 1
  ELSE 1 + CHOOSE n \in DOMAIN figs : \A m \in DOMAIN figs : m <= n

AddFigure(figs, n, drawn) ==
  [ m \in DOMAIN figs \cup { n } |-> IF m = n THEN drawn ELSE figs[m] ]

\* variant: the figure is not released
KeepFigure(figs, n) == figs

\* lines 387, 393: plt.close(fig)
CloseFigure(figs, n) == [ m \in DOMAIN figs \ { n } |-> figs[m] ]

\* the effect of one call on the process state and the figure it returns
create_fido2_workflow_diagram(language) ==
  LET n == NextFigureNumber(figures)
      r == IF NeedsChineseFont(language)
             THEN setup_chinese_font(host, sansSerif, unicodeMinus)
             ELSE SetupResult(FALSE, sansSerif, unicodeMinus, << >>)
  IN  [ fig          |-> n,
        figures      |-> AddFigure(figures, n, DrawDiagram(language)),
        sansSerif    |-> r.sansSerif,
        unicodeMinus |-> r.unicodeMinus,
        out          |-> r.out,
        fontFound    |-> IF NeedsChineseFont(language)
                           THEN (IF r.ret THEN "yes" ELSE "no")
                           ELSE fontFound ]

(***************************************************************************)
(* Lines 372-395: save_diagram and main().                                 *)
(***************************************************************************)
FileEn == "images/fido2_workflow_en.png"
FileZh == "images/fido2_workflow_zh.png"
OutputDir == "images"

\* variant: the error is swallowed and main() carries on
OnResultSwallow(ok, next) == next

\* main() has no try/except: an exception raised by a statement leaves main()
OnResult(ok, next) == IF ok THEN next ELSE "raised"

WriteFile(fs, name, content) ==
  [ f \in DOMAIN fs \cup { name } |-> IF f = name THEN content ELSE fs[f] ]

\* line 381: os.makedirs('images', exist_ok=True)
Makedirs ==
  /\ pc = "makedirs"
  /\ \E ok \in BOOLEAN :
       /\ dirs' = IF ok THEN dirs \cup { OutputDir } ELSE dirs
       /\ events' = Append(events, IF ok THEN "makedirs" ELSE "makedirs_failed")
       /\ pc' = OnResult(ok, "create_en")
  /\ UNCHANGED << host, sansSerif, unicodeMinus, figures, fig_en, fig_zh, fontFound, files,
                  stdout, calls >>

\* lines 384-385
CreateEn ==
  /\ pc = "create_en"
  /\ LET r == create_fido2_workflow_diagram("en")
     IN  /\ figures' = r.figures
         /\ fig_en' = r.fig
         /\ sansSerif' = r.sansSerif
         /\ unicodeMinus' = r.unicodeMinus
         /\ fontFound' = r.fontFound
         /\ stdout' = Append(stdout, << "Generating English FIDO2 workflow diagram..." >>) \o r.out
  /\ events' = Append(events, "create_en")
  /\ pc' = "save_en"
  /\ UNCHANGED << host, fig_zh, dirs, files, calls >>

\* lines 372-375: save_diagram(fig, filename).  The write needs the directory;
\* a failed write may leave a partial file behind.
save_diagram(fig, filename, event, failure, next) ==
  \E ok \in (IF OutputDir \in dirs THEN BOOLEAN ELSE { FALSE }) :
    /\ IF ok
         THEN /\ files' = WriteFile(files, filename,
                                  [ complete |-> TRUE, dpi |-> 300, image |-> figures[fig] ])
              /\ stdout' = Append(stdout, << "Diagram saved as", filename >>)
              /\ events' = Append(events, event)
         ELSE /\ \/ files' = files
                 \/ /\ OutputDir \in dirs
                    /\ files' = WriteFile(files, filename, [ complete |-> FALSE ])
              /\ events' = Append(events, failure)
              /\ UNCHANGED stdout
    /\ pc' = OnResult(ok, next)

\* line 386
SaveEn ==
  /\ pc = "save_en"
  /\ save_diagram(fig_en, FileEn, "write_en", "write_en_failed", "close_en")
  /\ UNCHANGED << host, sansSerif, unicodeMinus, figures, fig_en, fig_zh, fontFound, dirs, calls >>

\* line 387
CloseEn ==
  /\ pc = "close_en"
  /\ figures' = CloseFigure(figures, fig_en)
  /\ events' = Append(events, "close_en")
  /\ pc' = "create_zh"
  /\ UNCHANGED << host, sansSerif, unicodeMinus, fig_en, fig_zh, fontFound, dirs, files,
                  stdout, calls >>

\* lines 390-391
CreateZh ==
  /\ pc = "create_zh"
  /\ LET r == create_fido2_workflow_diagram("zh")
     IN  /\ figures' = r.figures
         /\ fig_zh' = r.fig
         /\ sansSerif' = r.sansSerif
         /\ unicodeMinus' = r.unicodeMinus
         /\ fontFound' = r.fontFound
         /\ stdout' = Append(stdout, << "Generating Chinese FIDO2 workflow diagram..." >>) \o r.out
  /\ events' = Append(events, "create_zh")
  /\ pc' = "save_zh"
  /\ UNCHANGED << host, fig_en, dirs, files, calls >>

\* line 392
SaveZh ==
  /\ pc = "save_zh"
  /\ save_diagram(fig_zh, FileZh, "write_zh", "write_zh_failed", "close_zh")
  /\ UNCHANGED << host, sansSerif, unicodeMinus, figures, fig_en, fig_zh, fontFound, dirs, calls >>

\* line 393
CloseZh ==
  /\ pc = "close_zh"
  /\ figures' = CloseFigure(figures, fig_zh)
  /\ events' = Append(events, "close_zh")
  /\ pc' = "print_success"
  /\ UNCHANGED << host, sansSerif, unicodeMinus, fig_en, fig_zh, fontFound, dirs, files,
                  stdout, calls >>

SuccessMessage == << "All diagrams generated successfully!" >>

\* line 395
PrintSuccess ==
  /\ pc = "print_success"
  /\ stdout' = Append(stdout, SuccessMessage)
  /\ events' = Append(events, "print_success")
  /\ pc' = "done"
  /\ UNCHANGED << host, sansSerif, unicodeMinus, figures, fig_en, fig_zh, fontFound, dirs,
                  files, calls >>

Next ==
  \/ Makedirs
  \/ CreateEn
  \/ SaveEn
  \/ CloseEn
  \/ CreateZh
  \/ SaveZh
  \/ CloseZh
  \/ PrintSuccess

Spec == Init /\ [][Next]_vars

(***************************************************************************)
(* Direct invocations of the renderer, in any order of language tags, by a *)
(* caller that closes each figure before asking for the next one.          *)
(***************************************************************************)
Invoke ==
  /\ pc = "caller"
  /\ calls < MaxCalls
  /\ DOMAIN figures = {}
  /\ \E language \in Languages :
       LET r == create_fido2_workflow_diagram(language)
       IN  /\ figures' = r.figures
           /\ sansSerif' = r.sansSerif
           /\ unicodeMinus' = r.unicodeMinus
           /\ fontFound' = r.fontFound
           /\ stdout' = stdout \o r.out
  /\ calls' = calls + 1
  /\ UNCHANGED << pc, host, fig_en, fig_zh, dirs, files, events >>

Discard ==
  /\ pc = "caller"
  /\ \E n \in DOMAIN figures : figures' = CloseFigure(figures, n)
  /\ UNCHANGED << pc, host, sansSerif, unicodeMinus, fig_en, fig_zh, fontFound, dirs, files,
                  stdout, events, calls >>

NextCalls ==
  \/ Invoke
  \/ Discard

SpecCalls == InitCalls /\ [][NextCalls]_vars

(***************************************************************************)
(* Properties.                                                             *)
(***************************************************************************)
Range(seq) == { seq[k] : k \in 1..Len(seq) }

IsPrefix(s, t) == Len(s) <= Len(t) /\ SubSeq(t, 1, Len(s)) = s

OpenFigures == { figures[n] : n \in DOMAIN figures }

\* the decimal digits of an ordinal 1..99, as code points
Digits(i) == IF i < 10 THEN << 48 + i >> ELSE << 48 + (i \div 10), 48 + (i % 10) >>

\* text begins with "<i>. "
HasOrdinal(text, i) == IsPrefix(Digits(i) \o << 46, 32 >>, text)

\* the boxes of a figure whose text carries ordinal i
BoxesOfStep(f, i) == { k \in 1..Len(f.boxes) : HasOrdinal(f.boxes[k].text, i) }

BoxOfStep(f, i) == f.boxes[CHOOSE k \in BoxesOfStep(f, i) : TRUE]

NumSteps == 18

\* C1: a language tag other than 'en' and 'zh' draws only English text: the
\* title, the three phase titles, the two decision labels, the 18 step labels
\* and the six legend labels.
C1_UnsupportedTagDrawsEnglish ==
  \A f \in OpenFigures :
    f.language \notin { "en", "zh" } =>
      /\ [ k \in 1..Len(f.labels) |-> f.labels[k].s ]
           = << TitleEn, Phase1TitleEn, Phase2TitleEn, PinSupportDecisionEn, Phase3TitleEn,
                CredentialLookupEn >>
      /\ [ k \in 1..Len(f.boxes) |-> f.boxes[k].text ] = StepsEn
      /\ [ k \in 1..Len(f.legend) |-> f.legend[k].label ]
           = << InitializationEn, RegistrationEn, PinSetupEn, AuthenticationEn, SuccessEn,
                ErrorEn >>

\* C2 as stated: the arrow from step 6 to step 7 starts at the right-bottom
\* corner of the step 6 box and ends at the left-top corner of the step 7 box.
C2_ArrowFromRightBottomCorner ==
  \A f \in OpenFigures :
    LET a  == f.arrows[6]
        b6 == BoxOfStep(f, 6)
        b7 == BoxOfStep(f, 7)
    IN  /\ a.ax = b6.x + b6.w /\ a.ay = b6.y
        /\ a.bx = b7.x /\ a.by = b7.y + b7.h

\* C2 amended: the arrow from step 6 (rectangle x 1.5..4.5, y_pin_not_set-0.25
\* .. y_pin_not_set+0.25) to step 7 (rectangle x 7.5..10.5) starts at the middle
\* of the bottom edge of the step 6 box and ends at the left-top corner of the
\* step 7 box.
C2_ArrowFromBottomCentre ==
  \A f \in OpenFigures :
    LET a  == f.arrows[6]
        b6 == BoxOfStep(f, 6)
        b7 == BoxOfStep(f, 7)
    IN  /\ b6.x = 150 /\ b6.x + b6.w = 450
        /\ b6.y = y_pin_not_set - 25 /\ b6.y + b6.h = y_pin_not_set + 25
        /\ b7.x = 750 /\ b7.x + b7.w = 1050
        /\ 2 * a.ax = 2 * b6.x + b6.w /\ a.ay = b6.y
        /\ a.bx = b7.x /\ a.by = b7.y + b7.h

C2_Witness ==
  \E f \in OpenFigures :
    /\ Len(f.arrows) >= 6
    /\ BoxesOfStep(f, 6) # {} /\ BoxesOfStep(f, 7) # {}
    /\ f.arrows[6].ay = BoxOfStep(f, 6).y

\* the rectangle a box covers as drawn: the coded rectangle grown by the pad
\* of the round box style on every side
Drawn(b) ==
  [ x0 |-> b.x - b.pad, x1 |-> b.x + b.w + b.pad, y0 |-> b.y - b.pad, y1 |-> b.y + b.h + b.pad ]

InteriorsMeet(r, s) == r.x0 < s.x1 /\ s.x0 < r.x1 /\ r.y0 < s.y1 /\ s.y0 < r.y1

\* C3: no two of the 18 step boxes, as drawn with their 0.1 padding, have an
\* interior point in common.
C3_NoBoxesOverlap ==
  \A f \in OpenFigures :
    \A i, j \in 1..Len(f.boxes) :
      i # j => ~InteriorsMeet(Drawn(f.boxes[i]), Drawn(f.boxes[j]))

\* no candidate font file exists and every family lookup fails or resolves
\* to the fallback font
NoChineseFontOnHost ==
  /\ \A i \in 1..Len(font_paths) : host.files[i] = "absent"
  /\ \A j \in 1..Len(chinese_fonts) : host.families[j] \in { "error", "default" }

\* C4: when the 'zh' render has run on a host without any candidate Chinese
\* font, the font set-up printed the warning, returned False and left the font
\* preference list unchanged, and the figure was produced.
C4_NoFontWarnsAndKeepsList ==
  (pc = "save_zh" /\ NoChineseFontOnHost) =>
    /\ fontFound = "no"
    /\ WarnNoFont \in Range(stdout)
    /\ sansSerif = DefaultSansSerif
    /\ unicodeMinus = TRUE
    /\ fig_zh \in DOMAIN figures

ExpectedEvents ==
  << "makedirs", "create_en", "write_en", "close_en", "create_zh", "write_zh", "close_zh",
     "print_success" >>

FailureEvents == { "makedirs_failed", "write_en_failed", "write_zh_failed" }

Failed == Range(events) \cap FailureEvents # {}

\* C5: a run of main() without failure performs makedirs, create en, write en,
\* close en, create zh, write zh, close zh, print success, in this order; at
\* most one canvas is open at any time, the directory exists before any write,
\* and the finished run has written exactly the two distinct files.
C5_MainOrder ==
  /\ Cardinality(DOMAIN figures) <= 1
  /\ DOMAIN files # {} => OutputDir \in dirs
  /\ ~Failed => IsPrefix(events, ExpectedEvents)
  /\ pc = "done" =>
       /\ events = ExpectedEvents
       /\ DOMAIN files = { FileEn, FileZh }
       /\ FileEn # FileZh
       /\ files[FileEn].complete /\ files[FileEn].image.language = "en"
       /\ files[FileZh].complete /\ files[FileZh].image.language = "zh"
       /\ DOMAIN figures = {}

C5_Witness == pc = "done" /\ ~Failed /\ Len(events) = 8

\* C6: a failed directory creation or file write ends the run: the failure is
\* the last operation, the success message is never printed, a failed
\* directory creation writes no file, and after a failed English write the
\* Chinese diagram is neither built nor written.
C6_FailureEndsRun ==
  /\ \A k \in 1..Len(events) : events[k] \in FailureEvents => k = Len(events)
  /\ Failed => SuccessMessage \notin Range(stdout)
  /\ "makedirs_failed" \in Range(events) => DOMAIN files = {} /\ DOMAIN figures = {}
  /\ "write_en_failed" \in Range(events) =>
       /\ "create_zh" \notin Range(events)
       /\ fig_zh = NoFigure
       /\ FileZh \notin DOMAIN files

C6_Witness == pc = "raised" /\ "write_en_failed" \in Range(events)

\* C7 as stated: no invocation changes rcParams['font.sans-serif'] or
\* rcParams['axes.unicode_minus'].
C7_CallsLeaveRcParams == [][sansSerif' = sansSerif /\ unicodeMinus' = unicodeMinus]_vars

\* C7 amended: an invocation with a tag other than 'zh' leaves both settings
\* unchanged; a 'zh' invocation leaves them unchanged or prepends one name to
\* font.sans-serif and sets axes.unicode_minus to False; no other step changes
\* them, so the change outlives the call.
C7_OnlyZhChangesRcParams ==
  [][ /\ calls' = calls => (sansSerif' = sansSerif /\ unicodeMinus' = unicodeMinus)
      /\ calls' # calls =>
           \A f \in { figures'[n] : n \in DOMAIN figures' } :
             /\ f.language # "zh" => (sansSerif' = sansSerif /\ unicodeMinus' = unicodeMinus)
             /\ \/ sansSerif' = sansSerif /\ unicodeMinus' = unicodeMinus
                \/ /\ Len(sansSerif') = Len(sansSerif) + 1
                   /\ Tail(sansSerif') = sansSerif
                   /\ unicodeMinus' = FALSE ]_vars

C7_Witness ==
  /\ calls = 2
  /\ Len(sansSerif) = Len(DefaultSansSerif) + 1
  /\ \E f \in OpenFigures : f.language # "zh"

Step4EnText ==
  << 52, 46, 32, 67, 108, 105, 101, 110, 116, 32, 114, 101, 113, 117, 101, 115, 116, 115, 32,
     77, 97, 107, 101, 67, 114, 101, 100, 101, 110, 116, 105, 97, 108 >>

\* C8: for 'en' and 'zh' the step table has 18 entries, entry i begins with
\* "i. ", a render draws exactly 18 step boxes and every step 1..18 is the text
\* of exactly one box; English entry 4 is "4. Client requests MakeCredential".
C8_EighteenSteps ==
  \A f \in OpenFigures :
    f.language \in { "en", "zh" } =>
      LET tbl == steps(f.language)
      IN  /\ Len(tbl) = NumSteps
          /\ \A i \in 1..NumSteps : HasOrdinal(tbl[i], i)
          /\ Len(f.boxes) = NumSteps
          /\ \A i \in 1..NumSteps :
               /\ Cardinality({ k \in 1..Len(f.boxes) : f.boxes[k].text = tbl[i] }) = 1
               /\ Cardinality(BoxesOfStep(f, i)) = 1
          /\ f.language = "en" => (tbl[4] = Step4EnText /\ BoxOfStep(f, 4).text = Step4EnText)

C8_Witness ==
  \E f \in OpenFigures : f.language = "zh" /\ Len(f.boxes) > 0 /\ pc = "save_zh"

\* point (px, py) lies on the boundary of the coded rectangle of box b
OnBoundary(px, py, b) ==
  /\ b.x <= px /\ px <= b.x + b.w
  /\ b.y <= py /\ py <= b.y + b.h
  /\ px = b.x \/ px = b.x + b.w \/ py = b.y \/ py = b.y + b.h

\* arrow number, the step at its origin, the step at its target (0: the end is
\* not attached to a step box)
Attachments ==
  { << 1, 3, 4 >>, << 2, 14, 15 >>, << 3, 4, 5 >>, << 4, 5, 0 >>, << 5, 0, 6 >>,
    << 6, 6, 7 >>, << 7, 10, 11 >>, << 8, 11, 12 >>, << 9, 12, 13 >>, << 10, 13, 14 >>,
    << 11, 0, 16 >>, << 12, 16, 17 >>, << 13, 17, 18 >> }

\* C9: exactly 13 arrows are drawn and every arrow end attached to a step box
\* lies on the boundary of that box's 3 x 0.5 rectangle.
C9_ArrowEndsOnBoxes ==
  \A f \in OpenFigures :
    /\ Len(f.arrows) = 13
    /\ \A t \in Attachments :
         LET a == f.arrows[t[1]]
         IN  /\ t[2] # 0 => OnBoundary(a.ax, a.ay, BoxOfStep(f, t[2]))
             /\ t[3] # 0 => OnBoundary(a.bx, a.by, BoxOfStep(f, t[3]))

\* C10: every fill colour of a step box appears in the legend and no two of
\* the six legend entries have the same colour.
C10_LegendIsMapping ==
  \A f \in OpenFigures :
    /\ Len(f.legend) = 6
    /\ \A k \in 1..Len(f.boxes) : \E e \in 1..Len(f.legend) : f.legend[e].color = f.boxes[k].face
    /\ \A d, e \in 1..Len(f.legend) : d # e => f.legend[d].color # f.legend[e].color

\* point (px, py) lies inside the coordinate space of figure f
InsideCanvas(f, px, py) ==
  /\ f.xlim[1] <= px /\ px <= f.xlim[2]
  /\ f.ylim[1] <= py /\ py <= f.ylim[2]

\* C11: the 3 x 0.5 rectangle of every step box and both ends of every arrow
\* lie inside the canvas coordinate space 0 <= x <= 12, 0 <= y <= 16.
C11_DrawingInsideCanvas ==
  \A f \in OpenFigures :
    /\ f.xlim = << 0, 1200 >> /\ f.ylim = << 0, 1600 >>
    /\ \A k \in 1..Len(f.boxes) :
         /\ InsideCanvas(f, f.boxes[k].x, f.boxes[k].y)
         /\ InsideCanvas(f, f.boxes[k].x + f.boxes[k].w, f.boxes[k].y + f.boxes[k].h)
    /\ \A k \in 1..Len(f.arrows) :
         /\ InsideCanvas(f, f.arrows[k].ax, f.arrows[k].ay)
         /\ InsideCanvas(f, f.arrows[k].bx, f.arrows[k].by)
====
